---- MODULE Spec2Model ----
(***************************************************************************)
(* Model of the eve-pi solver: the item catalog (item.rs), the planets of  *)
(* a system (system.rs) and the closure engine and factory search          *)
(* (solver.rs).  Items are identified by id only (Hash/Eq/Ord of Item use  *)
(* the id), so a set of items is modelled as a set of ids.                 *)
(***************************************************************************)
EXTENDS Integers, Sequences, FiniteSets, TLC

\* ---------------------------------------------------------------- bounds
\* Item ids of the modelled world are 1..MaxItems; a catalog holds any subset.
MaxItems == 3
\* Tiers given to catalog items and closure ceilings are R0..MaxTier.
MaxTier == 2

\* Planets of a system: at most MaxPlanets.
MaxPlanets == 3
\* --max-planets values given on the command line are 0..MaxKnob.
MaxKnob == 3
\* usize is modelled UsizeBits wide (the arithmetic is taken modulo
\* 2^UsizeBits); every count of the model is far below it.
UsizeBits == 8

\* ------------------------------------------------------------- enum Tier
R0 == 0
P1 == 1
P2 == 2
P3 == 3
P4 == 4

\* Builder::build: the default of max_planets
DefaultMaxPlanets == 6

Ids == 1..MaxItems
ItemTiers == R0..MaxTier

\* RawProduction: only the key set of `inputs` matters for reachability.
\* RawItem: tier and Option<RawProduction> (has = FALSE is None).
RawItem == [tier : ItemTiers, has : BOOLEAN, inputs : SUBSET Ids]

\* ItemMap: every id -> RawItem map a YAML file can hold.  An item without
\* production carries no inputs.
ItemMap ==
  UNION {[D -> {r \in RawItem : r.has \/ r.inputs = {}}] : D \in SUBSET Ids}

\* The layered catalogs: item 1 is a raw resource, item i > 1 is absent or
\* has tier min(i - 1, MaxTier), with or without a recipe over any ids.
LayerTier(id) == IF id - 1 <= MaxTier THEN id - 1 ELSE MaxTier

LayeredItemMap ==
  {m \in ItemMap :
     /\ 1 \in DOMAIN m /\ ~m[1].has
     /\ \A id \in DOMAIN m : m[id].tier = LayerTier(id)}

\* Option<T>: None is the empty tuple, Some(x) the tuple <<x>>.
None == <<>>
Some(x) == <<x>>
Option(S) == {None} \cup {Some(x) : x \in S}
UnwrapOr(v, d) == IF v = None THEN d ELSE v[1]

VARIABLES
  pc,              \* position in main / Solver::solve
  items,           \* ItemManager.items
  used_in,         \* ItemManager.used_in
  planets,         \* System.planets: each planet's resource item ids
  builder,         \* Builder
  solver,          \* Solver
  planet_solutions,   \* Simulation.planet_solutions: each planet's products
  factory_solutions,  \* Simulation.factory_solutions
  resources,       \* Planet.resources of the planet being solved (item ids)
  max_tier,        \* solve_cycles: max_tier
  initial_inputs,  \* solve_cycles: initial_inputs
  products,        \* solve_cycles: products
  next_cycle,      \* solve_cycles: next_cycle.outputs
  calls            \* number of solve_cycle evaluations of this solve_cycles

frame == <<max_tier, initial_inputs, products, next_cycle, calls>>
sim == <<planets, builder, solver, planet_solutions, factory_solutions>>
vars == <<pc, items, used_in, resources, frame, sim>>

\* ------------------------------------------------------------ ItemManager
\* ItemManager::new: used_in[input] collects the ids whose production lists
\* `input`; a key exists only for ids that are some production's input.  No
\* input id is checked against the catalog here.
BuildUsedIn(raw) ==
  LET keys == UNION {raw[id].inputs : id \in {i \in DOMAIN raw : raw[i].has}}
  IN [k \in keys |-> {id \in DOMAIN raw : raw[id].has /\ k \in raw[id].inputs}]

\* ItemManager::get -> Item::from_raw -> Production::from_raw -> get ...
\* resolves the whole input tree of an item.  Outcomes: "ok" (Some), "none"
\* (the id, or an input below it, is missing: the Err is turned into None by
\* .ok()), "overflow" (the recursion follows a recipe cycle and never
\* returns).  With both a missing and a cyclic input the iteration order of
\* the inputs HashMap decides, so the result is a set of possible outcomes.
RECURSIVE GetOutcomes(_, _, _)
GetOutcomes(cat, id, depth) ==
  IF id \notin DOMAIN cat THEN {"none"}
  ELSE IF ~cat[id].has THEN {"ok"}
  ELSE IF depth > Cardinality(DOMAIN cat) THEN {"overflow"}
  ELSE LET outs == UNION {GetOutcomes(cat, i, depth + 1) : i \in cat[id].inputs}
           bad  == outs \ {"ok"}
       IN IF bad = {} THEN {"ok"} ELSE bad

Get(cat, id) == GetOutcomes(cat, id, 0)

\* ItemManager::get_products: the ids under used_in[item.id]; each is
\* resolved with get(id).unwrap().  None when the key is absent, which
\* solve_cycle turns into an empty list (unwrap_or_default).
ProductIds(uin, id) == IF id \in DOMAIN uin THEN uin[id] ELSE {}

\* The ways get_products can fail for `id`: "none" is the unwrap panic.
GetProductsFailures(cat, uin, id) ==
  UNION {Get(cat, p) : p \in ProductIds(uin, id)} \ {"ok"}

\* Planet::from_raw: each resource id is resolved with get; the outcomes
\* the resolution of a planet can have.
PlanetFromRawOutcomes(cat, raw_resources) ==
  UNION {Get(cat, r) : r \in raw_resources}

\* ------------------------------------------------------------- Production
\* Variant: some input, instead of every input, is in possible_inputs.
M_CanBeMadeUsingAny(inputs, possible_inputs) ==
  \E i \in inputs : i \in possible_inputs

\* Production::can_be_made_using: all inputs are in possible_inputs.
CanBeMadeUsing(inputs, possible_inputs) ==
  \A i \in inputs : i \in possible_inputs

\* ----------------------------------------------------------------- Solver
\* Variant: the R0 test is dropped.
M_IsTierAllowedNoR0(tier, mt) == tier <= mt

\* Variant: only the ceiling tier itself is let through.
M_IsTierAllowedOnlyCeiling(tier, mt) == tier > R0 /\ tier = mt

\* solve_cycles: is_tier_allowed
IsTierAllowed(tier, mt) == tier > R0 /\ tier <= mt

\* solve_cycle: skip products above the ceiling
AboveCeiling(tier, mt) == tier > mt

\* solve_cycle: the outputs of one cycle over `inputs` (when no lookup fails).
SolveCycle(cat, uin, inputs, mt) ==
  {p \in UNION {ProductIds(uin, i) : i \in inputs} :
     /\ ~AboveCeiling(cat[p].tier, mt)
     /\ CanBeMadeUsing(cat[p].inputs, inputs)}

\* solve_cycle: the failures its get_products calls can raise.
SolveCycleFailures(cat, uin, inputs) ==
  UNION {GetProductsFailures(cat, uin, i) : i \in inputs}

\* Variant: later cycles see the initial inputs too.
M_NextInputsUnion(initial, prods) == initial \cup prods

\* The inputs solve_cycles hands to solve_cycle after the first cycle:
\* &products.iter().collect(), the products alone.
NextInputs(initial, prods) == prods

\* solve_cycles: the for loop over next_cycle.outputs
Inserted(cat, outputs, prods, mt) ==
  {o \in outputs : IsTierAllowed(cat[o].tier, mt) /\ o \notin prods}

\* solve_cycles as a function of its arguments: the loop run to its end.
\* ok = FALSE when a lookup inside some solve_cycle fails.
RECURSIVE SolveCyclesFrom(_, _, _, _, _, _)
SolveCyclesFrom(cat, uin, initial, mt, prods, outputs) ==
  LET ins == Inserted(cat, outputs, prods, mt)
      new == prods \cup ins
      nxt == NextInputs(initial, new)
  IN IF ins = {} THEN [ok |-> TRUE, products |-> new, fails |-> {}]
     ELSE IF SolveCycleFailures(cat, uin, nxt) # {}
          THEN [ok |-> FALSE, products |-> {},
                fails |-> SolveCycleFailures(cat, uin, nxt)]
          ELSE SolveCyclesFrom(cat, uin, initial, mt, new,
                               SolveCycle(cat, uin, nxt, mt))

SolveCycles(cat, uin, initial, mt) ==
  IF SolveCycleFailures(cat, uin, initial) # {}
  THEN [ok |-> FALSE, products |-> {},
        fails |-> SolveCycleFailures(cat, uin, initial)]
  ELSE SolveCyclesFrom(cat, uin, initial, mt, {},
                       SolveCycle(cat, uin, initial, mt))

FailPc(f) == IF f = "none" THEN "panic" ELSE "overflow"

\* Builder::default
BuilderDefault ==
  [use_factory_planet |-> None, max_planets |-> None,
   production_max_tier |-> None, factory_max_tier |-> None]

NoSolver ==
  [use_factory_planet |-> FALSE, max_planets |-> 0,
   production_max_tier |-> R0, factory_max_tier |-> R0]

\* The state main starts in, the items file deserialized into `file`.
InitWith(file) ==
  /\ pc = "new"
  /\ items \in file
  /\ used_in = <<>>
  /\ resources = {}
  /\ max_tier = R0
  /\ initial_inputs = {}
  /\ products = {}
  /\ next_cycle = {}
  /\ calls = 0
  /\ planets = <<>>
  /\ builder = BuilderDefault
  /\ solver = NoSolver
  /\ planet_solutions = <<>>
  /\ factory_solutions = <<>>

Init == InitWith(ItemMap)

\* ItemManager::new: the reverse index is built over the deserialized map.
ItemManagerNew ==
  /\ pc = "new"
  /\ used_in' = BuildUsedIn(items)
  /\ pc' = "system"
  /\ UNCHANGED <<items, resources, frame, sim>>

\* Planet::from_raw: every resource id is resolved with get; None is the
\* MissingItem error that aborts System::new.
PlanetFromRaw ==
  /\ pc = "system"
  /\ \E raw_resources \in SUBSET Ids :
       LET outs == PlanetFromRawOutcomes(items, raw_resources)
       IN \/ /\ outs \subseteq {"ok"}
             /\ resources' = raw_resources
             /\ pc' = "solve"
          \/ /\ "none" \in outs
             /\ resources' = resources
             /\ pc' = "missing_item"
          \/ /\ "overflow" \in outs
             /\ resources' = resources
             /\ pc' = "load_overflow"
  /\ UNCHANGED <<items, used_in, frame, sim>>

\* Solver::solve, one planet: solve_cycles(&planet.collect_resources(), ..,
\* production_max_tier) up to and including the first solve_cycle.
SolveCyclesEnter ==
  /\ pc = "solve"
  /\ \E mt \in ItemTiers :
       /\ max_tier' = mt
       /\ initial_inputs' = resources
       /\ products' = {}
       /\ calls' = 1
       /\ LET fails == SolveCycleFailures(items, used_in, resources)
          IN \/ /\ fails = {}
                /\ next_cycle' = SolveCycle(items, used_in, resources, mt)
                /\ pc' = "loop"
             \/ \E f \in fails :
                  /\ next_cycle' = {}
                  /\ pc' = FailPc(f)
  /\ UNCHANGED <<items, used_in, resources, sim>>

\* solve_cycles: one iteration of the loop.
SolveCyclesLoop ==
  /\ pc = "loop"
  /\ LET ins   == Inserted(items, next_cycle, products, max_tier)
         prods == products \cup ins
         nxt   == NextInputs(initial_inputs, prods)
         fails == SolveCycleFailures(items, used_in, nxt)
     IN /\ products' = prods
        /\ IF ins = {}
           THEN /\ pc' = "returned"
                /\ next_cycle' = {}
                /\ calls' = calls
           ELSE /\ calls' = calls + 1
                /\ \/ /\ fails = {}
                      /\ next_cycle' = SolveCycle(items, used_in, nxt, max_tier)
                      /\ pc' = "loop"
                   \/ \E f \in fails :
                        /\ next_cycle' = {}
                        /\ pc' = FailPc(f)
  /\ UNCHANGED <<items, used_in, resources, max_tier, initial_inputs, sim>>

Next ==
  \/ ItemManagerNew
  \/ PlanetFromRaw
  \/ SolveCyclesEnter
  \/ SolveCyclesLoop

Spec == Init /\ [][Next]_vars

\* ------------------------------------------------- the whole of main
\* The resource sets a planet of the system file can list: at most
\* MaxResources ids, the highest id of the world left out.
MaxResources == 1
PlanetResources ==
  {S \in SUBSET (1..(MaxItems - 1)) : Cardinality(S) <= MaxResources}

\* The tier ceilings given on the command line, when one is given.
ProductionTierArgs == {MaxTier}
FactoryTierArgs == {P1}

RawSystems == UNION {[1..n -> PlanetResources] : n \in 0..MaxPlanets}

Min(S) == CHOOSE x \in S : \A y \in S : x <= y

\* System::new: Planet::from_raw over the raw planets in order; the first
\* planet that does not resolve aborts the construction.
SystemNew ==
  /\ pc = "system"
  /\ \E raw \in RawSystems :
       LET bad == {i \in 1..Len(raw) :
                     ~(PlanetFromRawOutcomes(items, raw[i]) \subseteq {"ok"})}
       IN IF bad = {}
          THEN planets' = raw /\ pc' = "build"
          ELSE /\ planets' = planets
               /\ \E f \in PlanetFromRawOutcomes(items, raw[Min(bad)]) \ {"ok"} :
                    pc' = IF f = "none" THEN "missing_item" ELSE "load_overflow"
  /\ UNCHANGED <<items, used_in, resources, frame, builder, solver,
                 planet_solutions, factory_solutions>>

\* usize subtraction a - b: the difference, or on underflow a panic (overflow
\* checks on) or the wrapped value (overflow checks off).
UsizeSub(a, b) ==
  IF a >= b
  THEN {[panic |-> FALSE, value |-> a - b]}
  ELSE {[panic |-> TRUE, value |-> 0],
        [panic |-> FALSE, value |-> (a - b) % (2 ^ UsizeBits)]}

\* Builder::build: max_planets
BuildMaxPlanets(b) ==
  IF UnwrapOr(b.use_factory_planet, TRUE)
  THEN UsizeSub(UnwrapOr(b.max_planets, DefaultMaxPlanets), 1)
  ELSE {[panic |-> FALSE, value |-> UnwrapOr(b.max_planets, DefaultMaxPlanets)]}

\* Builder::build: production_max_tier
BuildProductionMaxTier(b) ==
  UnwrapOr(b.production_max_tier,
           IF UnwrapOr(b.use_factory_planet, TRUE) THEN P1 ELSE P4)

\* main: the builder is filled from the command line and built.
Build ==
  /\ pc = "build"
  /\ \E ufp \in Option(BOOLEAN), mp \in Option(0..MaxKnob),
        pt \in Option(ProductionTierArgs), ft \in Option(FactoryTierArgs) :
       LET b == [use_factory_planet |-> ufp, max_planets |-> mp,
                 production_max_tier |-> pt, factory_max_tier |-> ft]
       IN /\ builder' = b
          /\ \E m \in BuildMaxPlanets(b) :
               IF m.panic
               THEN solver' = solver /\ pc' = "build_panic"
               ELSE /\ solver' =
                         [use_factory_planet |-> UnwrapOr(ufp, TRUE),
                          max_planets |-> m.value,
                          production_max_tier |-> BuildProductionMaxTier(b),
                          factory_max_tier |-> UnwrapOr(ft, P4)]
                    /\ pc' = "solve_all"
  /\ UNCHANGED <<items, used_in, resources, frame, planets,
                 planet_solutions, factory_solutions>>

\* Itertools::combinations(k) over n elements: the k-element index lists in
\* lexicographic order; one empty list for k = 0, none for k > n.
RECURSIVE CombinationsFrom(_, _, _)
CombinationsFrom(lo, n, k) ==
  IF k = 0 THEN << <<>> >>
  ELSE IF lo > n THEN <<>>
  ELSE LET with == CombinationsFrom(lo + 1, n, k - 1)
       IN [i \in 1..Len(with) |-> <<lo>> \o with[i]]
            \o CombinationsFrom(lo + 1, n, k)

\* Variant: the enumeration starts one element late.
M_CombinationsSkipFirst(n, k) == CombinationsFrom(2, n, k)

Combinations(n, k) == CombinationsFrom(1, n, k)

\* Solver::solve: the inputs of the factory closure of one planet set.
FactoryInputs(sols, planet_set) ==
  UNION {sols[planet_set[j]] : j \in 1..Len(planet_set)}

\* Solver::solve: the first loop, one solve_cycles per planet.
PlanetStage(cat, uin, pls, mt) ==
  [i \in 1..Len(pls) |-> SolveCycles(cat, uin, pls[i], mt)]

\* Solver::solve: the second loop, one solve_cycles per combination.
FactoryStage(cat, uin, sols, k, mt) ==
  LET combos == Combinations(Len(sols), k)
  IN [j \in 1..Len(combos) |->
        [planets |-> combos[j],
         run |-> SolveCycles(cat, uin, FactoryInputs(sols, combos[j]), mt)]]

\* Solver::solve
Solve ==
  /\ pc = "solve_all"
  /\ LET ps    == PlanetStage(items, used_in, planets, solver.production_max_tier)
         pbad  == {i \in 1..Len(ps) : ~ps[i].ok}
         sols  == [i \in 1..Len(ps) |-> ps[i].products]
         fs    == FactoryStage(items, used_in, sols, solver.max_planets,
                               solver.factory_max_tier)
         fbad  == {j \in 1..Len(fs) : ~fs[j].run.ok}
     IN IF pbad # {}
        THEN /\ \E f \in ps[Min(pbad)].fails : pc' = FailPc(f)
             /\ UNCHANGED <<planet_solutions, factory_solutions>>
        ELSE IF ~solver.use_factory_planet
        THEN /\ planet_solutions' = sols
             /\ factory_solutions' = <<>>
             /\ pc' = "done"
        ELSE IF fbad # {}
        THEN /\ \E f \in fs[Min(fbad)].run.fails : pc' = FailPc(f)
             /\ UNCHANGED <<planet_solutions, factory_solutions>>
        ELSE /\ planet_solutions' = sols
             /\ factory_solutions' =
                  [j \in 1..Len(fs) |->
                     [planets |-> fs[j].planets, products |-> fs[j].run.products]]
             /\ pc' = "done"
  /\ UNCHANGED <<items, used_in, resources, frame, planets, builder, solver>>

NextSolve ==
  \/ ItemManagerNew
  \/ SystemNew
  \/ Build
  \/ Solve

SpecSolve == InitWith(LayeredItemMap) /\ [][NextSolve]_vars

\* ------------------------------------------------------------ properties
\* The closure the closure engine is specified to return: the least set X
\* holding every catalog item with tier in (R0, mt] whose recipe lists at
\* least one input and only inputs of initial \cup X.
RECURSIVE RefClosureFrom(_, _, _, _)
RefClosureFrom(cat, initial, mt, X) ==
  LET Y == X \cup {p \in DOMAIN cat :
                     /\ cat[p].has /\ cat[p].inputs # {}
                     /\ cat[p].tier > R0 /\ cat[p].tier <= mt
                     /\ cat[p].inputs \subseteq initial \cup X}
  IN IF Y = X THEN X ELSE RefClosureFrom(cat, initial, mt, Y)

RefClosure(cat, initial, mt) == RefClosureFrom(cat, initial, mt, {})

\* The returned set and the step-free SolveCycles agree (model sanity).
StepwiseAgrees ==
  pc = "returned" =>
    SolveCycles(items, used_in, initial_inputs, max_tier)
      = [ok |-> TRUE, products |-> products, fails |-> {}]

\* C1: whenever solve_cycles returns, the returned set is the reference
\* closure of initial_inputs under max_tier; in particular an item whose
\* recipe mixes an initial-only input with a produced input is returned.
C1_EqualsReferenceClosure ==
  pc = "returned" => products = RefClosure(items, initial_inputs, max_tier)

\* C2: whenever solve_cycles returns P for initial I, solve_cycles on
\* I \cup P (same catalog and ceiling) returns P again.
C2_Idempotent ==
  pc = "returned" =>
    SolveCycles(items, used_in, initial_inputs \cup products, max_tier)
      = [ok |-> TRUE, products |-> products, fails |-> {}]

\* C5: whenever solve_cycles returns P under ceiling max_tier, every run on
\* the same catalog and initial set under a higher ceiling that returns,
\* returns a superset of P.
C5_TierMonotone ==
  pc = "returned" =>
    \A tb \in ItemTiers :
      tb > max_tier =>
        LET r == SolveCycles(items, used_in, initial_inputs, tb)
        IN r.ok => products \subseteq r.products

C5_Witness ==
  /\ pc = "returned"
  /\ max_tier = P1
  /\ products # {}
  /\ LET r == SolveCycles(items, used_in, initial_inputs, P2)
     IN r.ok /\ products \subseteq r.products /\ products # r.products

\* C6: at every cycle and on return, every produced item has a tier above
\* R0 and at most max_tier.
C6_TierBounds ==
  \A p \in products : items[p].tier > R0 /\ items[p].tier <= max_tier

\* A non-empty returned closure that left out an item whose recipe is
\* satisfied, because its tier is R0 or above the ceiling.
C6_Witness ==
  /\ pc = "returned"
  /\ products # {}
  /\ \E a \in DOMAIN items \ products :
       /\ items[a].tier = R0 \/ items[a].tier > max_tier
       /\ items[a].has /\ items[a].inputs # {}
       /\ items[a].inputs \subseteq initial_inputs \cup products

\* C8: the closure computation terminates (its lookups return) and, once
\* it has returned, solve_cycle was evaluated at most |catalog| times.
C8_Terminates ==
  /\ pc # "overflow"
  /\ pc = "returned" /\ DOMAIN items # {} => calls <= Cardinality(DOMAIN items)

C10_Sound ==
  \A p \in products :
    /\ items[p].has
    /\ items[p].inputs \subseteq initial_inputs \cup products

\* Mid-loop, a produced item with a two-input recipe, next to an initial
\* item without a recipe, which is not produced.
C10_Witness ==
  /\ pc = "loop"
  /\ \E p \in products : Cardinality(items[p].inputs) = 2
  /\ \E q \in initial_inputs \ products : ~items[q].has

\* C4: no lookup fails on a missing item id while the solver runs, and a
\* catalog the solver has run over has no recipe input outside the catalog.
C4_NoMissingItemInSolver ==
  /\ pc # "panic"
  /\ pc = "returned" =>
       \A id \in DOMAIN items : items[id].inputs \subseteq DOMAIN items

\* ---- whole-main properties (SpecSolve)
RECURSIVE Binomial(_, _)
Binomial(n, k) ==
  IF k = 0 THEN 1
  ELSE IF n = 0 THEN 0
  ELSE Binomial(n - 1, k - 1) + Binomial(n - 1, k)

Range(f) == {f[i] : i \in DOMAIN f}

\* C3: when solve ends with the factory stage on, over n planet solutions
\* and subset size k, factory_solutions holds exactly C(n, k) records, one
\* for each k-element subset of the n locations, none repeated; zero
\* records when k > n, and solve still ends normally.
C3_SubsetComplete ==
  pc = "done" /\ solver.use_factory_planet =>
    LET n    == Len(planet_solutions)
        k    == solver.max_planets
        sets == {Range(factory_solutions[j].planets) :
                   j \in 1..Len(factory_solutions)}
    IN /\ Len(factory_solutions) = Binomial(n, k)
       /\ Cardinality(sets) = Len(factory_solutions)
       /\ sets = {S \in SUBSET (1..n) : Cardinality(S) = k}
       /\ \A j \in 1..Len(factory_solutions) :
            Len(factory_solutions[j].planets) = k
       /\ (k > n => factory_solutions = <<>>)

\* Three locations, subsets of two: three records, one of them productive.
C3_Witness ==
  /\ pc = "done" /\ solver.use_factory_planet
  /\ Len(planet_solutions) = 3 /\ solver.max_planets = 2
  /\ Len(factory_solutions) = 3
  /\ \E j \in 1..Len(factory_solutions) : factory_solutions[j].products # {}

\* Every item of the catalog resolves (no missing and no cyclic input).
WellFormed(cat) == \A id \in DOMAIN cat : Get(cat, id) = {"ok"}

\* C7: build never fails, the subset size it computes with the factory
\* stage on is max_planets - 1 (no underflow, no wraparound), and over a
\* catalog in which every item resolves solve never fails.
C7_BuildAndSolveTotal ==
  /\ pc # "build_panic"
  /\ pc \in {"solve_all", "done"} /\ solver.use_factory_planet =>
       solver.max_planets = UnwrapOr(builder.max_planets, DefaultMaxPlanets) - 1
  /\ WellFormed(items) => pc \notin {"panic", "overflow"}

\* Over a catalog in which every item resolves, solve never fails.
SolveTotalWhenWellFormed ==
  WellFormed(items) => pc \notin {"panic", "overflow"}

====
